---- MODULE Spec2Model ----
(***************************************************************************)
(* A model of plugins/module_utils/phpipam_helper.py: one reconciliation   *)
(* run of a PhpipamEntityAnsibleModule against a phpIPAM server (Spec), a  *)
(* run in check mode (SpecCheckMode) and a run repeated (SpecTwoRuns).     *)
(*                                                                         *)
(* Python values are modelled by strings (a str by its text, None by       *)
(* "None", a bool parameter by "True"/"False"), a dict by a function from  *)
(* its keys to values, a list by a sequence, a formatted path by the       *)
(* sequence of its parts, and the entity None by the record NoneEntity.    *)
(***************************************************************************)
EXTENDS Naturals, Sequences, FiniteSets, TLC

VARIABLES
    inp,              \* what the module was started with: controller_name, kwargs spec, params, state,
                      \* check_mode, which invocation it is and how many calls came before it
    phpipam_spec,     \* self.phpipam_spec (set_entity adds 'resolved' to an entry)
    pc,               \* where the run is
    keyIdx,           \* _auto_resolve_entities: index of the next key of the loop
    desired_entity,   \* the dict _auto_resolve_entities builds
    current_entity,   \* ensure_entity's current_entity
    updated_entity,   \* ensure_entity's updated_entity
    changed,          \* self._changed
    before,           \* self._before[controller_uri]
    after,            \* self._after[controller_uri]
    calls,            \* every call made on self.phpipamapi, in order, with how it ended
    found,            \* what ensure_entity's find_current_entity returned (NotLookedUp before)
    remote,           \* the server's record under the module's natural key, or NoRecord
    others,           \* the <<controller, name>> pairs of the other records the server holds
    nchanges,         \* how often another client has changed the server during the run
    outcome           \* how the run ended, and what exit_json reported

vars == <<inp, phpipam_spec, pc, keyIdx, desired_entity, current_entity, updated_entity,
          changed, before, after, calls, found, remote, others, nchanges, outcome>>

\* ------------------------------------------------------------------ bounds

\* The longest list an entity_list parameter is given.
MaxListLen == 2
\* How often another client changes the target record during one run.
MaxRemoteChanges == 1

\* ------------------------------------------------------------------ values

NoneEntity == [None |-> "None"]
NoRecord == [NoRecord |-> "NoRecord"]
NotLookedUp == [NotLookedUp |-> "NotLookedUp"]
EmptyDict == [k \in {} |-> "None"]
NoParams == [k \in {} |-> "None"]
NoFilter == [k \in {} |-> "None"]

\* dict.update: the keys of d2 win.
DictUpdate(d1, d2) == [k \in DOMAIN d1 \cup DOMAIN d2 |-> IF k \in DOMAIN d2 THEN d2[k] ELSE d1[k]]

\* dict.get(key, default)
Get(d, key, default) == IF key \in DOMAIN d THEN d[key] ELSE default

\* separator.join(seq)
RECURSIVE Join(_, _)
Join(seq, sep) ==
    IF Len(seq) = 0 THEN ""
    ELSE IF Len(seq) = 1 THEN seq[1]
    ELSE seq[1] \o sep \o Join(Tail(seq), sep)

\* str(int(b)) of a bool parameter
BoolToIntStr(b) == IF b = "True" THEN "1" ELSE "0"

\* --------------------------------------------- naming utilities (tables)

\* inflection.camelize(key, uppercase_first_letter=False), for the keys used here.
Camelize(key) ==
    CASE key = "is_full" -> "isFull"
      [] key = "show_tag" -> "showTag"
      [] key = "vlan_id" -> "vlanId"
      [] key = "routing_domain" -> "routingDomain"
      [] OTHER -> key

\* '_' in key
HasUnderscore(key) == key \in {"is_full", "show_tag", "vlan_id", "routing_domain"}

\* 'tools' in controller
HasTools(controller) == controller \in {"tools/tags", "tools/device_types", "tools/nameservers"}

\* controller_pluralize: inflection.pluralize unless the controller is an exception.
PLURAL_EXCEPTIONS == {"nat", "prefix", "vlan", "vrf"}

controller_pluralize(controller) ==
    IF controller \in PLURAL_EXCEPTIONS THEN controller
    ELSE CASE controller = "section" -> "sections"
           [] controller = "subnet" -> "subnets"
           [] controller = "address" -> "addresses"
           [] controller = "device" -> "devices"
           [] controller = "l2domain" -> "l2domains"
           [] controller = "tools/device_type" -> "tools/device_types"
           [] controller = "tools/tags" -> "tools/tags"
           [] OTHER -> controller

\* 'a/b'.split('/') of a CIDR parameter
SplitCidr(cidr) == IF cidr = "10.0.0.0/8" THEN <<"10.0.0.0", "8">> ELSE <<cidr, "32">>

\* ------------------------------------------- the modules' declarations
\* What a module passes as phpipam_spec: keys in dict order, and the options of
\* each key. The modules are the callers of this helper; the ones below use every
\* branch of find_current_entity and _resolve_entity.

StrSpec == "type" :> "str"
ReqStr == ("type" :> "str") @@ ("required" :> "True")
BoolSpec == "type" :> "bool"
IdSpec(name) == ("type" :> "int") @@ ("invisible" :> "True") @@ ("phpipam_name" :> name)
Named(spec, name) == spec @@ ("phpipam_name" :> name)
EntitySpec(controller) == ("type" :> "entity") @@ ("controller" :> controller)
ListSpec(controller) == ("type" :> "entity_list") @@ ("controller" :> controller)

SectionModule ==
    [controller_name |-> "section",
     keys |-> <<"name", "description", "parent">>,
     spec |-> ("name" :> ReqStr) @@ ("description" :> StrSpec) @@ ("parent" :> ("type" :> "entity"))]

SubnetModule ==
    [controller_name |-> "subnet",
     keys |-> <<"subnet", "mask", "section", "description", "is_full", "parent">>,
     spec |-> ("subnet" :> ReqStr) @@ ("mask" :> ReqStr)
              @@ ("section" :> (Named(EntitySpec("sections"), "sectionId") @@ ("required" :> "True")))
              @@ ("description" :> StrSpec) @@ ("is_full" :> BoolSpec)
              @@ ("parent" :> Named("type" :> "entity", "masterSubnetId"))]

VlanModule ==
    [controller_name |-> "vlan",
     keys |-> <<"id", "name", "description", "vlan_id", "routing_domain">>,
     spec |-> ("id" :> IdSpec("vlanId")) @@ ("name" :> ReqStr) @@ ("description" :> StrSpec)
              @@ ("vlan_id" :> Named(ReqStr, "number"))
              @@ ("routing_domain" :> (Named(EntitySpec("l2domains"), "domainId") @@ ("required" :> "True")))]

L2domainModule ==
    [controller_name |-> "l2domain",
     keys |-> <<"name", "description", "sections">>,
     spec |-> ("name" :> ReqStr) @@ ("description" :> StrSpec)
              @@ ("sections" :> (Named(ListSpec("sections"), "permissions")
                                 @@ ("flatten" :> "True") @@ ("separator" :> ";")))]

TagModule ==
    [controller_name |-> "tools/tags",
     keys |-> <<"name", "show_tag">>,
     spec |-> ("name" :> Named(ReqStr, "type")) @@ ("show_tag" :> BoolSpec)]

DeviceModule ==
    [controller_name |-> "device",
     keys |-> <<"hostname", "description", "secret", "type", "force">>,
     spec |-> ("hostname" :> ReqStr) @@ ("description" :> StrSpec)
              @@ ("secret" :> (StrSpec @@ ("no_log" :> "True")))
              @@ ("type" :> EntitySpec("tools/device_types"))
              @@ ("force" :> (BoolSpec @@ ("api_invisible" :> "True")))]

AddressModule ==
    [controller_name |-> "address",
     keys |-> <<"ipaddress", "description", "tag", "device">>,
     spec |-> ("ipaddress" :> Named(ReqStr, "ip")) @@ ("description" :> StrSpec)
              @@ ("tag" :> EntitySpec("tools/tags"))
              @@ ("device" :> Named(EntitySpec("devices"), "deviceId"))]

DeviceTypeModule ==
    [controller_name |-> "tools/device_type",
     keys |-> <<"id", "name", "description">>,
     spec |-> ("id" :> IdSpec("tid")) @@ ("name" :> Named(ReqStr, "tname"))
              @@ ("description" :> Named(StrSpec, "tdescription"))]

VrfModule ==
    [controller_name |-> "vrf",
     keys |-> <<"name", "description", "sections", "nameservers">>,
     spec |-> ("name" :> ReqStr) @@ ("description" :> StrSpec)
              @@ ("sections" :> ListSpec("sections"))
              @@ ("nameservers" :> ListSpec("tools/nameservers"))]

Modules == {SectionModule, SubnetModule, VlanModule, L2domainModule, TagModule,
            DeviceModule, AddressModule, DeviceTypeModule, VrfModule}

\* ------------------------------------------------ _phpipam_spec_helper

PHPIPAM_SPEC_KEYS == {"api_invisible", "controller", "flatten", "phpipam_name",
                      "phpipam_spec", "resolved", "separator"}
VALUE_SPEC_KEYS == {"api_invisible", "controller", "flatten", "phpipam_name",
                    "separator", "type"}

Restrict(f, S) == [k \in DOMAIN f \cap S |-> f[k]]

\* The phpipam_spec entry of one key (the loop body, lines 337-356).
phpipam_value(key, value, controller_uri) ==
    LET kept == Restrict(value, VALUE_SPEC_KEYS)
        named == IF "phpipam_name" \notin DOMAIN kept /\ HasUnderscore(key)
                 THEN DictUpdate(kept, "phpipam_name" :> Camelize(key))
                 ELSE kept
    IN  IF Get(value, "type", "None") = "entity" /\ key = "parent"
        THEN DictUpdate(named, "controller" :> controller_uri)
        ELSE named

\* The argument_spec entry of one key.
argument_value(key, value) ==
    LET kept == Restrict(value, DOMAIN value \ PHPIPAM_SPEC_KEYS)
        type == Get(value, "type", "None")
    IN  IF type = "entity" THEN DictUpdate(kept, "type" :> "str")
        ELSE IF type = "entity_list"
             THEN DictUpdate(kept, ("type" :> "list") @@ ("elements" :> Get(value, "elements", "str")))
        ELSE kept

\* _phpipam_spec_helper(spec): the phpipam_spec and the generated argument_spec.
phpipam_spec_helper(spec, controller_uri) ==
    [phpipam_spec |-> [key \in DOMAIN spec |-> phpipam_value(key, spec[key], controller_uri)],
     argument_spec |-> [key \in {k \in DOMAIN spec : Get(spec[k], "invisible", "False") # "True"}
                            |-> argument_value(key, spec[key])]]

\* ------------------------------------------------------------ the inputs

controller_name == inp.controller_name
controller_uri == controller_pluralize(inp.controller_name)
phpipam_params == inp.params
state == inp.state

\* The names an entity_list parameter may hold, in order.
ListNames == <<"a", "b", "c", "d">>
ListOfLen(n) == SubSeq(ListNames, 1, IF n < Len(ListNames) THEN n ELSE Len(ListNames))

\* The value a parameter is given when it is given at all.
ParamValue(m, key, n) ==
    CASE key \in {"name", "hostname"} -> "t1"
      [] key = "ipaddress" -> "10.0.0.1"
      [] key = "subnet" -> "10.0.0.0"
      [] key = "mask" -> "24"
      [] key = "vlan_id" -> "10"
      [] key = "description" -> "d1"
      [] key = "secret" -> "s3cr3t"
      [] key = "parent" -> IF m.controller_name = "subnet" THEN "10.0.0.0/8" ELSE "a"
      [] Get(m.spec[key], "type", "None") = "bool" -> "True"
      [] Get(m.spec[key], "type", "None") = "entity_list" -> ListOfLen(n)
      [] OTHER -> "a"

\* self.phpipam_params: the parameters that are not None (there are no aliases).
\* Required parameters are always given, the others may be left out.
ParamSets(m) ==
    LET args == DOMAIN phpipam_spec_helper(m.spec, controller_pluralize(m.controller_name)).argument_spec
        required == {k \in args : Get(m.spec[k], "required", "False") = "True"}
    IN  {[k \in required \cup opt |-> ParamValue(m, k, n)] :
            opt \in SUBSET (args \ required), n \in 1..MaxListLen}

\* ---------------------------------------------------------- the server
\* The phpIPAM server behind phpypam: the record the module's natural key
\* addresses (remote), and the records of other controllers (others).

IdOf(name) == "id_" \o name

\* The field under which a record of a controller carries its identifier.
IdField(controller) ==
    CASE controller = "vlan" -> "vlanId"
      [] controller = "tools/device_types" -> "tid"
      [] OTHER -> "id"

\* The field a parameter is stored under: its phpipam_name, except that the
\* l2domains controller returns what is set as 'permissions' as 'sections'.
RemoteField(spec, controller, key) ==
    LET name == Get(spec[key], "phpipam_name", key)
    IN  IF controller = "l2domains" /\ name = "permissions" THEN "sections" ELSE name

\* A record of the module's controller under its natural key: description and
\* the bool fields vary, a reference holds the id of "a" ("0" for parent), the
\* description may be missing, and a vlan (found by its number) may have another name.
TargetRecords(m) ==
    LET uri == controller_pluralize(m.controller_name)
        spec == phpipam_spec_helper(m.spec, uri).phpipam_spec
        keys == {k \in DOMAIN phpipam_spec_helper(m.spec, uri).argument_spec :
                    Get(spec[k], "api_invisible", "False") # "True"}
        FieldValue(k, d, b) ==
            CASE k = "description" -> d
              [] k = "parent" -> "0"
              [] spec[k].type = "bool" -> b
              [] spec[k].type \in {"entity", "entity_list"} -> IdOf("a")
              [] OTHER -> ParamValue(m, k, 1)
        Rec(d, b) == [f \in {RemoteField(spec, uri, k) : k \in keys} |->
                        LET k == CHOOSE k \in keys : RemoteField(spec, uri, k) = f
                        IN  FieldValue(k, d, b)]
                     @@ (IdField(uri) :> "1")
        full == {Rec(d, b) : d \in {"d1", "d2"}, b \in {"0", "1"}}
        partial == IF "description" \in keys
                   THEN {Restrict(Rec("d2", "1"),
                                  DOMAIN Rec("d2", "1") \ {RemoteField(spec, uri, "description")})}
                   ELSE {}
        renamed == IF uri = "vlan" THEN {DictUpdate(Rec("d1", "1"), "name" :> "t0")} ELSE {}
    IN  full \cup partial \cup renamed

\* A record of another controller.
OtherRecord(controller, key) ==
    CASE controller = "tools/device_types" -> ("tid" :> IdOf(key)) @@ ("tname" :> key)
      [] controller = "tools/tags" -> ("id" :> IdOf(key)) @@ ("type" :> key)
      [] controller = "subnets" ->
            ("id" :> IdOf(key)) @@ ("subnet" :> SplitCidr(key)[1]) @@ ("mask" :> SplitCidr(key)[2])
            @@ ("sectionId" :> IdOf("a"))
      [] controller = "vlan" ->
            ("vlanId" :> IdOf(key)) @@ ("number" :> key) @@ ("domainId" :> IdOf("a")) @@ ("name" :> key)
      [] OTHER -> ("id" :> IdOf(key)) @@ ("name" :> key)

\* The keys other records may have, in the order the server lists them.
OtherKeys == ListNames \o <<"10.0.0.0/8", "20">>

\* The other records a run of module m with parameters p can ask for.
RelevantPairs(m, p) ==
    LET uri == controller_pluralize(m.controller_name)
        spec == phpipam_spec_helper(m.spec, uri).phpipam_spec
        Ctl(k) == Get(spec[k], "controller", uri)
    IN  {<<Ctl(k), p[k]>> : k \in {k \in DOMAIN p : spec[k].type = "entity"}}
        \cup UNION {{<<Ctl(k), p[k][i]>> : i \in 1..Len(p[k])} :
                        k \in {k \in DOMAIN p : spec[k].type = "entity_list"}}
        \cup (IF uri = "vlan" THEN {<<"vlan", "20">>} ELSE {})

\* The records of a controller, in the server's order.
Db(controller) ==
    LET n == Len(OtherKeys)
        F[i \in 0..n] ==
            IF i = 0 THEN <<>>
            ELSE IF <<controller, OtherKeys[i]>> \in others
                 THEN Append(F[i - 1], OtherRecord(controller, OtherKeys[i]))
                 ELSE F[i - 1]
    IN  F[n] \o (IF controller = controller_uri /\ remote # NoRecord THEN <<remote>> ELSE <<>>)

\* Whether the server finds a record under a path.
PathMatches(rec, path) ==
    CASE path = <<"/">> -> TRUE
      [] path[1] = "cidr" ->
            /\ {"subnet", "mask"} \subseteq DOMAIN rec
            /\ rec["subnet"] = path[2] /\ rec["mask"] = path[3]
      [] path[1] = "search" -> "ip" \in DOMAIN rec /\ rec["ip"] = path[2]
      [] OTHER -> "name" \in DOMAIN rec /\ rec["name"] = path[Len(path)]

\* Whether a record passes the filter_by/filter_value parameters of a request.
FilterMatches(rec, params) ==
    \/ params = NoParams
    \/ /\ params["filter_by"] \in DOMAIN rec
       /\ rec[params["filter_by"]] = params["filter_value"]

\* --------------------------------------------------- calls on phpipamapi

\* A get_entity call and how it ended: res is "notfound", "empty" (an empty
\* list), "list", "dict" or "error", hit whether find_entity returned a record.
GetCall(controller, path, params, res, hit) ==
    [op |-> "get", controller |-> controller, path |-> path, data |-> params,
     res |-> res, hit |-> hit]

ResOf(resp) == IF resp.kind = "list" /\ resp.data = <<>> THEN "empty" ELSE resp.kind

\* What get_entity can answer: the matching records as a list, one record as a
\* dict, PHPyPAMEntityNotFoundException or an empty list when nothing matches,
\* or another error of the client library.
ApiGet(controller, path, params) ==
    LET matches == SelectSeq(Db(controller),
                             LAMBDA r : PathMatches(r, path) /\ FilterMatches(r, params))
    IN  IF matches = <<>>
        THEN {[kind |-> "notfound"], [kind |-> "list", data |-> <<>>], [kind |-> "error"]}
        ELSE {[kind |-> "list", data |-> matches], [kind |-> "error"]}
             \cup (IF Len(matches) = 1 THEN {[kind |-> "dict", data |-> matches[1]]} ELSE {})

\* ------------------------------------------------------------ the finders
\* A finder yields the set of its possible outcomes [st, ent, calls]: st is "ok"
\* (ent is returned), "fail" (fail_json was called) or "crash" (an exception
\* left the method); calls are the requests made.

Ok(ent, cs) == [st |-> "ok", ent |-> ent, calls |-> cs]
Fail(cs) == [st |-> "fail", ent |-> NoneEntity, calls |-> cs]
Crash(cs) == [st |-> "crash", ent |-> NoneEntity, calls |-> cs]

\* The body of find_entity after get_entity has answered.
FindEntityResult(resp, result_filter, cs) ==
    CASE resp.kind = "notfound" -> Ok(NoneEntity, cs)
      [] resp.kind = "error" -> Crash(cs)
      [] resp.kind = "dict" -> Ok(resp.data, cs)
      [] resp.kind = "list" ->
            LET filtering == Len(resp.data) >= 1 /\ result_filter # NoFilter
                keyError == filtering /\ \E i \in 1..Len(resp.data) :
                                result_filter["filter_by"] \notin DOMAIN resp.data[i]
                result == IF filtering
                          THEN SelectSeq(resp.data, LAMBDA d :
                                   d[result_filter["filter_by"]] = result_filter["filter_value"])
                          ELSE resp.data
            IN  IF keyError THEN Crash(cs)
                ELSE IF filtering /\ Len(result) = 0 THEN Ok(NoneEntity, cs)
                ELSE IF Len(result) > 0 THEN Ok(result[1], cs)
                ELSE Fail(cs)

find_entity(controller, path, params, result_filter) ==
    {LET r == FindEntityResult(resp, result_filter, <<>>)
     IN  [r EXCEPT !.calls = <<GetCall(controller, path, params, ResOf(resp),
                                       r.st = "ok" /\ r.ent # NoneEntity)>>] :
        resp \in ApiGet(controller, path, params)}

find_by_key(controller, value, key) ==
    find_entity(controller, <<"/">>, [filter_by |-> key, filter_value |-> value], NoFilter)

\* x['id'] of what a finder returned: TypeError on None, KeyError without 'id'.
HasId(ent) == ent # NoneEntity /\ "id" \in DOMAIN ent

find_subnet(subnet, mask, section) ==
    UNION {IF o.st # "ok" THEN {o}
           ELSE IF ~HasId(o.ent) THEN {Crash(o.calls)}
           ELSE {[o2 EXCEPT !.calls = o.calls \o o2.calls] :
                    o2 \in find_entity("subnets", <<"cidr", subnet, mask>>,
                                       [filter_by |-> "sectionId", filter_value |-> o.ent["id"]],
                                       NoFilter)} :
           o \in find_entity("sections", <<section>>, NoParams, NoFilter)}

find_address(address) == find_entity("addresses", <<"search", address>>, NoParams, NoFilter)

find_device(hostname) == find_by_key("devices", hostname, "hostname")

\* result['id'] = result[field] when the result is a record that has the field.
WithIdFrom(o, field) ==
    IF o.st = "ok" /\ o.ent # NoneEntity /\ o.ent # EmptyDict /\ field \in DOMAIN o.ent
    THEN [o EXCEPT !.ent = DictUpdate(o.ent, "id" :> o.ent[field])]
    ELSE o

find_device_type(device_type) ==
    {WithIdFrom(o, "tid") : o \in find_by_key("tools/device_types", device_type, "tname")}

\* str(number): the vlan number is a str parameter
PyStr(v) == v

find_vlan(number, domain) ==
    UNION {IF o.st # "ok" THEN {o}
           ELSE IF o.ent = NoneEntity THEN {Fail(o.calls)}
           ELSE IF "id" \notin DOMAIN o.ent THEN {Crash(o.calls)}
           ELSE {WithIdFrom([o2 EXCEPT !.calls = o.calls \o o2.calls], "vlanId") :
                    o2 \in find_entity("vlan", <<"/">>,
                                       [filter_by |-> "domainId", filter_value |-> o.ent["id"]],
                                       [filter_by |-> "number", filter_value |-> PyStr(number)])} :
           o \in find_by_key("l2domains", domain, "name")}

find_current_entity ==
    IF controller_name = "subnet"
    THEN find_subnet(phpipam_params["subnet"], phpipam_params["mask"], phpipam_params["section"])
    ELSE IF controller_name = "address" THEN find_address(phpipam_params["ipaddress"])
    ELSE IF controller_name = "device" THEN find_device(phpipam_params["hostname"])
    ELSE IF controller_name = "tools/device_type" THEN find_device_type(phpipam_params["name"])
    ELSE IF controller_name = "tools/tags"
    THEN find_by_key(controller_uri, phpipam_params["name"], "type")
    ELSE IF controller_name = "vlan"
    THEN find_vlan(phpipam_params["vlan_id"], phpipam_params["routing_domain"])
    ELSE IF HasTools(controller_uri) \/ controller_name \in {"l2domain", "vrf"}
    THEN find_by_key(controller_uri, phpipam_params["name"], "name")
    ELSE find_entity(controller_uri, <<"/", phpipam_params["name"]>>, NoParams, NoFilter)

\* --------------------------------------------------------- _resolve_entity
\* An outcome of _resolve_entity carries what it returns as val: [ent |-> e] for
\* a record or None, [str |-> s] for the joined ids, [list |-> l] for a list.

Resolved(o, val) == [st |-> o.st, calls |-> o.calls, val |-> val]
AsEntity(outcomes) == {Resolved(o, [ent |-> o.ent]) : o \in outcomes}

\* [find_entity(controller, '/' + e)[field] for e in names], names[i..] still to
\* do: the outcomes [st, calls, val], val the sequence of what was found.
RECURSIVE FindEach(_, _, _, _)
FindEach(controller, names, i, wantId) ==
    IF i > Len(names) THEN {[st |-> "ok", calls |-> <<>>, val |-> <<>>]}
    ELSE UNION {IF o.st # "ok" THEN {Resolved(o, <<>>)}
                ELSE IF wantId /\ ~HasId(o.ent) THEN {[st |-> "crash", calls |-> o.calls, val |-> <<>>]}
                ELSE {[st |-> r.st, calls |-> o.calls \o r.calls,
                       val |-> <<IF wantId THEN o.ent["id"] ELSE o.ent>> \o r.val] :
                         r \in FindEach(controller, names, i + 1, wantId)} :
                o \in find_entity(controller, <<"/", names[i]>>, NoParams, NoFilter)}

\* How a list value appears as the filter_value of a request.
ListAsFilterValue(value) == Join(value, ",")

\* _resolve_entity(key) for a key of phpipam_params, before set_entity(key):
\* entity_spec['controller'] is a KeyError when the entry names no controller.
ResolveLookup(key) ==
    LET entity_spec == phpipam_spec[key]
        controller == IF Get(entity_spec, "controller", "") = "" THEN controller_uri
                      ELSE entity_spec["controller"]
        type == Get(entity_spec, "type", "None")
        value == phpipam_params[key]
        scalar == IF type = "entity_list" THEN ListAsFilterValue(value) ELSE value
    IN  IF "controller" \notin DOMAIN entity_spec
        THEN {Resolved(Crash(<<>>), [ent |-> NoneEntity])}
        ELSE IF controller = "subnets"
        THEN IF "section" \in DOMAIN phpipam_params /\ type # "entity_list"
             THEN AsEntity(find_subnet(SplitCidr(scalar)[1], SplitCidr(scalar)[2],
                                       phpipam_params["section"]))
             ELSE {Resolved(Crash(<<>>), [ent |-> NoneEntity])}
        ELSE IF controller = "tools/device_types" THEN AsEntity(find_device_type(scalar))
        ELSE IF controller = "tools/tags" THEN AsEntity(find_by_key(controller, scalar, "type"))
        ELSE IF controller = "vlan"
        THEN IF "routing_domain" \in DOMAIN phpipam_params
             THEN AsEntity(find_vlan(scalar, phpipam_params["routing_domain"]))
             ELSE {Resolved(Crash(<<>>), [ent |-> NoneEntity])}
        ELSE IF HasTools(controller) \/ controller \in {"l2domains", "vrf"}
        THEN AsEntity(find_by_key(controller, scalar, "name"))
        ELSE IF type = "entity"
        THEN AsEntity(find_entity(controller, <<"/", value>>, NoParams, NoFilter))
        ELSE IF type = "entity_list"
        THEN IF Get(entity_spec, "flatten", "False") = "True"
             THEN {[st |-> r.st, calls |-> r.calls,
                    val |-> [str |-> Join(r.val, Get(entity_spec, "separator", ";"))]] :
                      r \in FindEach(controller, value, 1, TRUE)}
             ELSE {[st |-> "ok", calls |-> <<>>, val |-> [ent |-> NoneEntity]]}
        ELSE {[st |-> r.st, calls |-> r.calls, val |-> [list |-> r.val]] :
                 r \in FindEach(controller, value, 1, FALSE)}

\* _resolve_entity(key): None when the key is no parameter.
resolve_entity(key) ==
    IF key \notin DOMAIN phpipam_params
    THEN {[st |-> "ok", calls |-> <<>>, val |-> [ent |-> NoneEntity]]}
    ELSE ResolveLookup(key)

\* set_entity(key) of a resolution that returned.
set_entity(spec, key) == [spec EXCEPT ![key] = DictUpdate(@, "resolved" :> "True")]

\* The spec after _resolve_entity(key) with outcome o.
SpecAfterResolve(spec, key, o) ==
    IF o.st = "ok" /\ key \in DOMAIN phpipam_params THEN set_entity(spec, key) ELSE spec

\* The value a dict or None takes in the desired entity.
ValueRepr(val) ==
    IF "str" \in DOMAIN val THEN val.str
    ELSE IF "list" \in DOMAIN val THEN "list"
    ELSE IF val.ent = NoneEntity THEN "None"
    ELSE IF "id" \in DOMAIN val.ent THEN "{id: " \o val.ent["id"] \o "}"
    ELSE "{}"

\* ------------------------------------------- sanitising and the mutations

REDACTED == "VALUE_SPECIFIED_IN_NO_LOG_PARAMETER"

\* The keys _sanitize_entity redacts: those phpipam_spec marks no_log.
NoLogKeys(entity) ==
    {k \in DOMAIN entity : /\ k \in DOMAIN phpipam_spec
                           /\ "no_log" \in DOMAIN phpipam_spec[k]
                           /\ phpipam_spec[k]["no_log"] = "True"}

sanitize_entity(entity) ==
    IF entity = NoneEntity THEN EmptyDict
    ELSE DictUpdate(entity, [k \in NoLogKeys(entity) |-> REDACTED])

\* 'id' in self.phpipam_spec and self.phpipam_spec['id']['phpipam_name'] or 'id'
entity_id ==
    IF "id" \in DOMAIN phpipam_spec /\ phpipam_spec["id"]["phpipam_name"] # ""
    THEN phpipam_spec["id"]["phpipam_name"]
    ELSE "id"

CreateCall(desired, res) ==
    [op |-> "create", controller |-> controller_uri, path |-> <<>>, data |-> desired,
     res |-> res, hit |-> FALSE]

UpdateCall(path, data, res) ==
    [op |-> "update", controller |-> controller_uri, path |-> path, data |-> data,
     res |-> res, hit |-> FALSE]

\* Mutant of DeleteCall: the delete goes to the singular controller_name.
DeleteCallOnControllerName(path, res) ==
    [op |-> "delete", controller |-> controller_name, path |-> path, data |-> EmptyDict,
     res |-> res, hit |-> FALSE]

DeleteCall(path, res) ==
    [op |-> "delete", controller |-> controller_uri, path |-> path, data |-> EmptyDict,
     res |-> res, hit |-> FALSE]

\* Mutant of EnsureBranch: state=absent deletes without looking at the current entity.
EnsureBranchDeletesUnseen(st, current) ==
    IF st = "present"
    THEN IF current = NoneEntity THEN "create" ELSE "update"
    ELSE "delete"

\* ensure_entity, lines 525-534: the branch taken for a state and a current entity.
EnsureBranch(st, current) ==
    IF st = "present"
    THEN IF current = NoneEntity THEN "create" ELSE "update"
    ELSE IF current # NoneEntity THEN "delete" ELSE "noop"

\* set_changed(): self._changed = True
set_changed == TRUE

\* _update_entity, lines 390-391: the l2domains workaround applies.
NeedsPermissions(desired) == controller_name = "l2domain" /\ "permissions" \in DOMAIN desired

\* current_entity after the workaround (the dict is changed in place).
WithPermissions(desired, current) ==
    IF NeedsPermissions(desired)
    THEN DictUpdate(current, "permissions" :> current["sections"])
    ELSE current

\* Mutant of DifferingFields: the comparison with the current value is lost.
DifferingFieldsUncompared(desired, current) ==
    [k \in {k \in DOMAIN desired : k # "parent"} |-> desired[k]]

\* _update_entity, line 393: the fields that differ.
DifferingFields(desired, current) ==
    [k \in {k \in DOMAIN desired : desired[k] # current[k] /\ k # "parent"} |-> desired[k]]

\* Mutant of UpdatePayload: the identifier and the vlan name are not added.
UpdatePayloadBare(desired, current) == DifferingFields(desired, current)

\* _update_entity, lines 397-401: what is added to a non-empty update.
UpdatePayload(desired, current) ==
    LET updated == DifferingFields(desired, current)
        withId == IF ~HasTools(controller_uri)
                  THEN DictUpdate(updated, entity_id :> current[entity_id])
                  ELSE updated
    IN  IF controller_uri = "vlan" THEN DictUpdate(withId, "name" :> current["name"]) ELSE withId

\* _update_entity, lines 405-408
UpdatePath(current) ==
    IF HasTools(controller_uri) \/ controller_uri \in {"vlan", "vrf"}
    THEN <<current[entity_id]>>
    ELSE <<"/">>

\* The KeyErrors of _update_entity, in the order the lines run.
UpdateKeyError(desired, current) ==
    \/ NeedsPermissions(desired) /\ "sections" \notin DOMAIN current
    \/ \E k \in DOMAIN desired : k \notin DOMAIN WithPermissions(desired, current)
    \/ /\ DOMAIN DifferingFields(desired, WithPermissions(desired, current)) # {}
       /\ \/ entity_id \notin DOMAIN current
          \/ controller_uri = "vlan" /\ "name" \notin DOMAIN current

\* What the server keeps of the data of a create or an update.
StoredFields(data) ==
    [f \in {IF controller_uri = "l2domains" /\ k = "permissions" THEN "sections" ELSE k :
               k \in DOMAIN data} |->
        IF f = "sections" /\ controller_uri = "l2domains" /\ "permissions" \in DOMAIN data
        THEN data["permissions"] ELSE data[f]]

\* How create_entity can end: done, PHPyPAMEntityNotFoundException, another error.
ApiCreate == IF remote = NoRecord THEN {"ok", "notfound", "error"} ELSE {"error"}

\* How update_entity and delete_entity can end.
ApiMutate == IF remote = NoRecord THEN {"notfound", "error"} ELSE {"ok", "error"}

\* Mutant of exit_changed: self.changed is not consulted.
exit_changed_argument_only(arg) == arg

\* exit_json(changed=False): kwargs['changed'] = changed or self.changed
exit_changed(arg) == arg \/ changed

\* ------------------------------------------------------------ the run

Running == [status |-> "running", changed |-> FALSE]

\* fail_json, or an exception leaving run(): api_connection never reaches exit_json.
Ended(status) == [status |-> status, changed |-> FALSE]

\* The module after __init__, started in check mode or not.
InitMode(check_mode) ==
    /\ \E m \in Modules : \E p \in ParamSets(m) :
        /\ inp \in {[controller_name |-> m.controller_name, keys |-> m.keys, spec |-> m.spec,
                     params |-> p, state |-> st, check_mode |-> check_mode,
                     invocation |-> 1, earlier |-> 0] :
                        st \in {"present", "absent"}}
        /\ phpipam_spec = phpipam_spec_helper(m.spec, controller_pluralize(m.controller_name)).phpipam_spec
        /\ remote \in {NoRecord} \cup TargetRecords(m)
        /\ others \in SUBSET RelevantPairs(m, p)
    /\ pc = "run"
    /\ keyIdx = 1
    /\ desired_entity = EmptyDict
    /\ current_entity = NoneEntity
    /\ updated_entity = NoneEntity
    /\ changed = FALSE
    /\ before = <<>>
    /\ after = <<>>
    /\ calls = <<>>
    /\ found = NotLookedUp
    /\ nchanges = 0
    /\ outcome = Running

Init == InitMode(FALSE)

\* The run stops with fail_json ("failed") or an uncaught exception ("crashed").
Stop(status, cs) ==
    /\ calls' = calls \o cs
    /\ outcome' = Ended(status)
    /\ pc' = "done"

StatusOf(st) == IF st = "fail" THEN "failed" ELSE "crashed"

\* run(), lines 544-546: with state=absent an unresolvable parent ends the run.
run ==
    /\ pc = "run"
    /\ IF /\ "parent" \in DOMAIN phpipam_spec
          /\ Get(phpipam_spec["parent"], "type", "None") = "entity"
          /\ state = "absent"
          /\ "parent" \in DOMAIN phpipam_params
       THEN \E o \in resolve_entity("parent") :
              /\ phpipam_spec' = SpecAfterResolve(phpipam_spec, "parent", o)
              /\ IF o.st = "ok"
                 THEN /\ calls' = calls \o o.calls
                      /\ pc' = IF o.val.ent = NoneEntity THEN "exit" ELSE "resolve"
                      /\ UNCHANGED outcome
                 ELSE Stop(StatusOf(o.st), o.calls)
       ELSE /\ pc' = "resolve"
            /\ UNCHANGED <<phpipam_spec, calls, outcome>>
    /\ UNCHANGED <<found, inp, keyIdx, desired_entity, current_entity, updated_entity, changed,
                   before, after, remote, others, nchanges>>

\* _auto_resolve_entities: one turn of the loop over phpipam_spec.items().
auto_resolve_entities ==
    /\ pc = "resolve"
    /\ LET key == inp.keys[keyIdx]
           spec == phpipam_spec[key]
           updated_key == Get(spec, "phpipam_name", key)
           next == IF keyIdx = Len(inp.keys) THEN "ensure" ELSE "resolve"
           Set(v) == /\ desired_entity' = DictUpdate(desired_entity, updated_key :> v)
                     /\ pc' = next
                     /\ keyIdx' = keyIdx + 1
                     /\ UNCHANGED outcome
       IN  IF key \in DOMAIN phpipam_params /\ Get(spec, "api_invisible", "False") # "True"
           THEN IF spec["type"] \in {"entity", "entity_list"} /\ "resolved" \notin DOMAIN spec
                THEN \E o \in resolve_entity(key) :
                       /\ phpipam_spec' = SpecAfterResolve(phpipam_spec, key, o)
                       /\ IF o.st # "ok"
                          THEN /\ Stop(StatusOf(o.st), o.calls)
                               /\ UNCHANGED <<desired_entity, keyIdx>>
                          ELSE IF spec["type"] = "entity_list"
                          THEN /\ Set(ValueRepr(o.val))
                               /\ calls' = calls \o o.calls
                          ELSE IF o.val.ent # NoneEntity /\ o.val.ent # EmptyDict
                                  /\ "id" \in DOMAIN o.val.ent
                          THEN /\ Set(o.val.ent["id"])
                               /\ calls' = calls \o o.calls
                          ELSE /\ Stop("failed", o.calls)
                               /\ UNCHANGED <<desired_entity, keyIdx>>
                ELSE /\ Set(IF spec["type"] = "bool" THEN BoolToIntStr(phpipam_params[key])
                            ELSE IF spec["type"] = "entity_list"
                                 THEN ListAsFilterValue(phpipam_params[key])
                                 ELSE phpipam_params[key])
                     /\ UNCHANGED <<phpipam_spec, calls>>
           ELSE /\ pc' = next
                /\ keyIdx' = keyIdx + 1
                /\ UNCHANGED <<phpipam_spec, desired_entity, calls, outcome>>
    /\ UNCHANGED <<found, inp, current_entity, updated_entity, changed, before, after,
                   remote, others, nchanges>>

\* ensure_entity, lines 519-525 (and 530-538 when there is nothing to delete).
ensure_entity ==
    /\ pc = "ensure"
    /\ \E o \in find_current_entity :
         IF o.st # "ok"
         THEN /\ Stop(StatusOf(o.st), o.calls)
              /\ UNCHANGED <<current_entity, updated_entity, before, after, found>>
         ELSE /\ calls' = calls \o o.calls
              /\ found' = o.ent
              /\ current_entity' = IF o.ent = NoneEntity THEN NoneEntity ELSE sanitize_entity(o.ent)
              /\ before' = Append(before, sanitize_entity(o.ent))
              /\ IF EnsureBranch(state, o.ent) = "noop"
                 THEN /\ updated_entity' = NoneEntity
                      /\ after' = Append(after, sanitize_entity(NoneEntity))
                      /\ pc' = "exit"
                 ELSE /\ pc' = EnsureBranch(state, o.ent)
                      /\ UNCHANGED <<updated_entity, after>>
              /\ UNCHANGED outcome
    /\ UNCHANGED <<inp, phpipam_spec, keyIdx, desired_entity, changed, remote, others, nchanges>>

\* ensure_entity's last lines, 536-538, with what the branch returned.
RecordAfter(entity) ==
    /\ updated_entity' = entity
    /\ after' = Append(after, sanitize_entity(entity))
    /\ pc' = "exit"

\* _create_entity, lines 373-375 and 377-378: the create call.
create_entity ==
    /\ pc = "create"
    /\ \E r \in ApiCreate :
         /\ calls' = Append(calls, CreateCall(desired_entity, r))
         /\ IF r = "ok"
            THEN /\ remote' = DictUpdate(StoredFields(desired_entity), IdField(controller_uri) :> "1")
                 /\ changed' = set_changed
                 /\ pc' = "create_find"
                 /\ UNCHANGED <<updated_entity, after, outcome>>
            ELSE IF r = "notfound"
            THEN /\ RecordAfter(NoneEntity)
                 /\ UNCHANGED <<remote, changed, outcome>>
            ELSE /\ outcome' = Ended("crashed")
                 /\ pc' = "done"
                 /\ UNCHANGED <<remote, changed, updated_entity, after>>
    /\ UNCHANGED <<found, inp, phpipam_spec, keyIdx, desired_entity, current_entity, before,
                   others, nchanges>>

\* _create_entity, line 376: the entity is looked up again.
create_find ==
    /\ pc = "create_find"
    /\ \E o \in find_current_entity :
         IF o.st # "ok"
         THEN /\ Stop(StatusOf(o.st), o.calls)
              /\ UNCHANGED <<updated_entity, after>>
         ELSE /\ calls' = calls \o o.calls
              /\ RecordAfter(o.ent)
              /\ UNCHANGED outcome
    /\ UNCHANGED <<found, inp, phpipam_spec, keyIdx, desired_entity, current_entity, changed, before,
                   remote, others, nchanges>>

\* _update_entity, lines 390-410: nothing differs, or the update call.
update_entity ==
    /\ pc = "update"
    /\ IF UpdateKeyError(desired_entity, current_entity)
       THEN /\ outcome' = Ended("crashed")
            /\ pc' = "done"
            /\ UNCHANGED <<calls, remote, current_entity, updated_entity, before, after>>
       ELSE LET current == WithPermissions(desired_entity, current_entity)
                payload == UpdatePayload(desired_entity, current)
            IN  /\ current_entity' = current
                /\ before' = [before EXCEPT ![Len(before)] = current]
                /\ IF DOMAIN DifferingFields(desired_entity, current) = {}
                   THEN /\ RecordAfter(current)
                        /\ UNCHANGED <<calls, remote, outcome>>
                   ELSE \E r \in ApiMutate :
                          /\ calls' = Append(calls, UpdateCall(UpdatePath(current), payload, r))
                          /\ IF r = "ok"
                             THEN /\ remote' = DictUpdate(remote, StoredFields(payload))
                                  /\ pc' = "update_find"
                                  /\ UNCHANGED outcome
                             ELSE /\ outcome' = Ended("crashed")
                                  /\ pc' = "done"
                                  /\ UNCHANGED remote
                          /\ UNCHANGED <<updated_entity, after>>
    /\ UNCHANGED <<found, inp, phpipam_spec, keyIdx, desired_entity, changed, others, nchanges>>

\* _update_entity, lines 412-418: the entity is looked up again.
update_find ==
    /\ pc = "update_find"
    /\ \E o \in find_current_entity :
         IF o.st # "ok"
         THEN /\ Stop(StatusOf(o.st), o.calls)
              /\ UNCHANGED <<updated_entity, after, changed>>
         ELSE /\ calls' = calls \o o.calls
              /\ changed' = set_changed
              /\ RecordAfter(o.ent)
              /\ UNCHANGED outcome
    /\ UNCHANGED <<found, inp, phpipam_spec, keyIdx, desired_entity, current_entity, before,
                   remote, others, nchanges>>

\* _delete_entity: PHPyPAMEntityNotFoundException becomes PhpipamAnsibleException.
delete_entity ==
    /\ pc = "delete"
    /\ IF entity_id \notin DOMAIN current_entity
       THEN /\ outcome' = Ended("crashed")
            /\ pc' = "done"
            /\ UNCHANGED <<calls, remote, changed, updated_entity, after>>
       ELSE \E r \in ApiMutate :
              /\ calls' = Append(calls, DeleteCall(<<current_entity[entity_id]>>, r))
              /\ IF r = "ok"
                 THEN /\ remote' = NoRecord
                      /\ changed' = set_changed
                      /\ RecordAfter(NoneEntity)
                      /\ UNCHANGED outcome
                 ELSE /\ outcome' = Ended("crashed")
                      /\ pc' = "done"
                      /\ UNCHANGED <<remote, changed, updated_entity, after>>
    /\ UNCHANGED <<found, inp, phpipam_spec, keyIdx, desired_entity, current_entity, before,
                   others, nchanges>>

\* api_connection: run() has returned, exit_json() reports.
exit_json ==
    /\ pc = "exit"
    /\ outcome' = [status |-> "exited", changed |-> exit_changed(FALSE)]
    /\ pc' = "done"
    /\ UNCHANGED <<found, inp, phpipam_spec, keyIdx, desired_entity, current_entity, updated_entity,
                   changed, before, after, calls, remote, others, nchanges>>

\* Another client of the server changes or removes the record between the
\* lookup of the current entity and the calls that follow it.
RemoteChange ==
    /\ pc \in {"create", "update", "delete", "create_find", "update_find"}
    /\ nchanges < MaxRemoteChanges
    /\ remote' \in ({NoRecord} \cup TargetRecords(inp)) \ {remote}
    /\ nchanges' = nchanges + 1
    /\ UNCHANGED <<found, inp, phpipam_spec, pc, keyIdx, desired_entity, current_entity,
                   updated_entity, changed, before, after, calls, others, outcome>>

Next ==
    \/ run
    \/ auto_resolve_entities
    \/ ensure_entity
    \/ create_entity
    \/ create_find
    \/ update_entity
    \/ update_find
    \/ delete_entity
    \/ exit_json
    \/ RemoteChange

Spec == Init /\ [][Next]_vars

\* ------------------------------------------------------------ check mode

\* __init__, line 68: kwargs.pop('supports_check_mode', True)
supports_check_mode == TRUE

\* The runs the framework starts in check mode: it hands a module that supports
\* check mode the flag and lets it run.
SpecCheckMode == InitMode(supports_check_mode) /\ [][Next]_vars

\* ------------------------------------------------------- two invocations

\* The same task is run again after a run that exited normally: a new process,
\* the same kwargs and parameters, the server as the first run left it.
second_invocation ==
    /\ pc = "done"
    /\ outcome.status = "exited"
    /\ inp.invocation = 1
    /\ inp' = [inp EXCEPT !.invocation = 2, !.earlier = Len(calls)]
    /\ phpipam_spec' = phpipam_spec_helper(inp.spec, controller_uri).phpipam_spec
    /\ pc' = "run"
    /\ keyIdx' = 1
    /\ desired_entity' = EmptyDict
    /\ current_entity' = NoneEntity
    /\ updated_entity' = NoneEntity
    /\ changed' = FALSE
    /\ before' = <<>>
    /\ after' = <<>>
    /\ found' = NotLookedUp
    /\ outcome' = Running
    /\ UNCHANGED <<calls, remote, others, nchanges>>

\* No other client touches the server: RemoteChange is left out.
NextTwoRuns ==
    \/ run
    \/ auto_resolve_entities
    \/ ensure_entity
    \/ create_entity
    \/ create_find
    \/ update_entity
    \/ update_find
    \/ delete_entity
    \/ exit_json
    \/ second_invocation

SpecTwoRuns == Init /\ [][NextTwoRuns]_vars

\* ================================================================ claims

\* The create, update and delete calls of the run, in order.
Mutations == SelectSeq(calls, LAMBDA c : c.op \in {"create", "update", "delete"})

\* The run is over: exit_json, fail_json or an exception.
RunOver == pc = "done"
ExitedNormally == outcome.status = "exited"

\* ensure_entity's lookup of the current entity returned None, a record.
FoundAbsent == found = NoneEntity
FoundRecord == found # NotLookedUp /\ found # NoneEntity

\* The run issued exactly one mutation call, a create on the declared
\* controller with the desired entity as data.
OneCreateOfDesired ==
    /\ Len(Mutations) = 1
    /\ Mutations[1].op = "create"
    /\ Mutations[1].controller = controller_uri
    /\ Mutations[1].data = desired_entity

\* C1: a run with state=present whose lookup of the current entity returned no
\* record issues exactly one create call on the declared controller with the
\* desired entity as data and, when it exits, reports changed=true.
C1_CreateAlwaysChanged ==
    (RunOver /\ state = "present" /\ FoundAbsent) =>
        /\ OneCreateOfDesired
        /\ ExitedNormally => outcome.changed

\* Every field of the desired entity has the same value in the entity found.
DesiredEqualsFound ==
    \A k \in DOMAIN desired_entity : k \in DOMAIN found /\ found[k] = desired_entity[k]

\* C2: a run with state=present that found the current entity with every field
\* of the desired entity at the desired value issues no create, update or
\* delete call and exits with changed=false.
C2_NoMutationWhenEqual ==
    (RunOver /\ state = "present" /\ FoundRecord /\ DesiredEqualsFound) =>
        /\ Mutations = <<>>
        /\ ExitedNormally
        /\ ~outcome.changed

\* C2 witness: such a run, with at least two desired fields, has exited.
C2_Witness ==
    /\ RunOver /\ state = "present" /\ FoundRecord /\ DesiredEqualsFound
    /\ Cardinality(DOMAIN desired_entity) >= 2
    /\ ExitedNormally /\ ~outcome.changed

\* C3: a run with state=absent whose lookup of the current entity returned no
\* record issues no create, update or delete call and exits with changed=false.
C3_NoMutationWhenAbsent ==
    (RunOver /\ state = "absent" /\ FoundAbsent) =>
        /\ Mutations = <<>>
        /\ ExitedNormally
        /\ ~outcome.changed

\* C3 witness: such a run has exited, its snapshots recorded.
C3_Witness ==
    /\ RunOver /\ state = "absent" /\ FoundAbsent /\ ExitedNormally
    /\ Len(before) = 1 /\ Len(after) = 1 /\ ~outcome.changed

\* The elements of a sequence.
Range(seq) == {seq[i] : i \in 1..Len(seq)}

\* The fields of the parameters the module declares no_log.
NoLogFields ==
    {Get(phpipam_spec[k], "phpipam_name", k) :
        k \in {k \in DOMAIN inp.spec : Get(inp.spec[k], "no_log", "False") = "True"}}

\* C4: no entity recorded by record_before or record_after holds the real value
\* of a field whose parameter the module declares no_log: the value is redacted.
C4_SnapshotsRedacted ==
    \A snap \in Range(before) \cup Range(after) :
        \A f \in NoLogFields \cap DOMAIN snap : snap[f] = REDACTED

\* The supplied parameters of type entity or entity_list that go to the API.
SuppliedRefs ==
    {k \in DOMAIN phpipam_params :
        /\ phpipam_spec[k]["type"] \in {"entity", "entity_list"}
        /\ Get(phpipam_spec[k], "api_invisible", "False") # "True"}

\* The names a reference parameter holds.
NamesOf(k) ==
    IF phpipam_spec[k]["type"] = "entity" THEN {phpipam_params[k]} ELSE Range(phpipam_params[k])

\* A name of the parameter is no record of its controller.
NamesMissing(k) ==
    \E n \in NamesOf(k) : <<Get(phpipam_spec[k], "controller", controller_uri), n>> \notin others

\* C5: when a supplied entity or entity_list parameter names a record that does
\* not exist, no create, update or delete call is issued, the run ends with a
\* failure, and the desired entity holds no value for that parameter. (Left out:
\* run()'s early return for a parent parameter with state=absent.)
C5_UnresolvedIsFatal ==
    \A k \in SuppliedRefs :
        (NamesMissing(k) /\ ~(k = "parent" /\ state = "absent")) =>
            /\ Mutations = <<>>
            /\ RunOver => outcome.status \in {"failed", "crashed"}
            /\ Get(phpipam_spec[k], "phpipam_name", k) \notin DOMAIN desired_entity

\* The value of the current entity a desired field is compared with.
ComparedValue(k) ==
    IF controller_name = "l2domain" /\ k = "permissions" THEN found["sections"] ELSE found[k]

\* The desired fields whose value differs from the current entity's.
Differing == {k \in DOMAIN desired_entity : desired_entity[k] # ComparedValue(k)}

\* The keys _update_entity adds to an update with values of the current entity.
AddedKeys ==
    (IF HasTools(controller_uri) THEN {} ELSE {entity_id})
    \cup (IF controller_uri = "vlan" THEN {"name"} ELSE {})

UpdateCalls == {c \in Range(calls) : c.op = "update"}

\* C6 as stated: the keys of the data of an update call are exactly the desired
\* fields whose value differs from the current entity's.
C6_OnlyDifferingSent ==
    \A c \in UpdateCalls : DOMAIN c.data = Differing

\* C6 amended: the data of an update call holds every desired field other than
\* 'parent' whose value differs from the current entity's (for l2domains,
\* 'permissions' is compared with the current 'sections'), at least one, with
\* the desired value; besides these it holds only the identifier field (unless
\* the controller is a tools controller) and, for vlan, 'name', and these two
\* always carry the current entity's values.
C6_UpdateData ==
    \A c \in UpdateCalls :
        /\ Differing \ {"parent"} # {}
        /\ DOMAIN c.data = (Differing \ {"parent"}) \cup AddedKeys
        /\ \A k \in DOMAIN c.data :
              c.data[k] = IF k \in AddedKeys THEN found[k] ELSE desired_entity[k]

\* C6 witness: an update was sent whose data holds a differing field and the
\* identifier, while a differing 'parent' or an equal field stayed out.
C6_Witness ==
    \E c \in UpdateCalls :
        /\ entity_id \in DOMAIN c.data
        /\ \E k \in DOMAIN c.data : k \in Differing
        /\ DOMAIN desired_entity \ DOMAIN c.data # {}

\* C7: when the update or delete call reports entity-not-found because the
\* record has disappeared since the lookup, the run does not fail: it exits
\* normally and the resulting entity is None.
C7_RaceIsNotFatal ==
    (RunOver /\ FoundRecord
        /\ \E c \in Range(calls) : c.op \in {"update", "delete"} /\ c.res = "notfound") =>
        /\ ExitedNormally
        /\ updated_entity = NoneEntity

\* C8: every create, update and delete call goes to the module's own
\* controller_uri, a run issues at most one of them, and every call to another
\* controller is a get.
C8_OnlyDeclaredController ==
    /\ \A c \in Range(calls) : c.controller # controller_uri => c.op = "get"
    /\ \A c \in Range(Mutations) : c.controller = controller_uri
    /\ Len(Mutations) <= 1

\* C8 witness: a run on a controller whose name differs from its uri looked up
\* another controller and then issued its one mutation.
C8_Witness ==
    /\ RunOver /\ Len(Mutations) = 1 /\ controller_name # controller_uri
    /\ \E c \in Range(calls) : c.controller # controller_uri /\ c.op = "get"

\* The request find_current_entity makes for the module's own record.
IsCurrentQuery(c) ==
    /\ c.op = "get"
    /\ c.controller = controller_uri
    /\ \E o \in find_current_entity :
          LET q == o.calls[Len(o.calls)] IN q.path = c.path /\ q.data = c.data

\* A get call that found no matching record.
NoMatch(c) == c.res \in {"notfound", "empty"} \/ (c.res = "list" /\ ~c.hit)

\* C9: when the lookup of the current entity finds no matching record (the API
\* reports entity-not-found, returns an empty list, or the result filter
\* excludes every record), the run does not fail on it: the entity is absent and
\* the run goes on to the create or the no-op branch.
C9_NotFoundIsAbsent ==
    (calls # <<>> /\ IsCurrentQuery(calls[Len(calls)]) /\ NoMatch(calls[Len(calls)])) =>
        /\ outcome.status \notin {"failed", "crashed"}
        /\ pc \in {"create", "exit", "done"}
        /\ pc = "create" => current_entity = NoneEntity

\* C10: a run that exits normally reports changed=true exactly when a create,
\* update or delete call was issued and completed without error.
C10_ChangedIffMutated ==
    (RunOver /\ ExitedNormally) =>
        (outcome.changed <=> \E c \in Range(Mutations) : c.res = "ok")

\* C10 witness: runs that exit with changed=true after an update, and after the
\* delete of an existing entity, and one with changed=false after a failed create.
C10_Witness ==
    /\ RunOver /\ ExitedNormally /\ outcome.changed
    /\ Len(Mutations) = 1 /\ Mutations[1].op \in {"update", "delete"}
    /\ FoundRecord

\* The calls of the invocation that is running (or has ended last).
CallsOfThisRun == SubSeq(calls, inp.earlier + 1, Len(calls))

\* The server answered every call so far, and the same way throughout: no error
\* of the client library, no create refused, entity-not-found (never an empty
\* list) where nothing matches, and a list (never a single record) for a query
\* of a whole controller.
RemoteAnswered ==
    \A c \in Range(calls) :
        /\ c.res \notin {"error", "empty"}
        /\ ~(c.op = "create" /\ c.res = "notfound")
        /\ (c.op = "get" /\ c.res = "dict") => c.path # <<"/">>

\* C11: after a run that exited normally, a second run with the same inputs,
\* against a server that keeps what it was sent and that nobody else changes,
\* issues no create, update or delete call, does not fail and reports changed=false.
C11_SecondRunChangesNothing ==
    (inp.invocation = 2 /\ RemoteAnswered) =>
        /\ \A c \in Range(CallsOfThisRun) : c.op = "get"
        /\ RunOver => (ExitedNormally /\ ~outcome.changed)

\* C12: in check mode no create, update or delete call is issued, whatever
\* the desired state and the current entity; the module declares check-mode
\* support by default.
C12_CheckModeIssuesNoMutation ==
    /\ supports_check_mode
    /\ inp.check_mode => Mutations = <<>>

====
